---------------------------- MODULE Spec2Model ----------------------------
(***************************************************************************)
(* A model of strawberry/printer.py: the SDL printer of a strawberry       *)
(* schema.  Python values are tagged records of one shape, printed text is *)
(* a sequence of string tokens (concatenation is \o), and a raised         *)
(* exception is a result whose status is not "ok".                         *)
(***************************************************************************)
EXTENDS Integers, Sequences, FiniteSets, TLC

VARIABLES the_schema, op, op_arg, op_res, first_res

vars == <<the_schema, op, op_arg, op_res, first_res>>

(***************************************************************************)
(* Bounds of the model.                                                    *)
(***************************************************************************)
\* the interpreter's recursion limit (sys.getrecursionlimit()), scaled down
RecursionLimit == 5
\* longest list / string drawn as an input of _serialize_dataclass
MaxLen == 2
\* most directive applications attached to one type or field
MaxDirectives == 2
\* most types in a type_map whose insertion order is permuted
MaxTypes == 3

(***************************************************************************)
(* Python values.  Every value is a record with the same six fields, so    *)
(* that any two values can be compared:                                    *)
(*   tag    "str" "int" "bool" "none" "unset" "undefined" "list" "map"     *)
(*          "dataclass"                                                    *)
(*   atom   the text of an int or a bool                                   *)
(*   chars  the characters of a str                                        *)
(*   names  the field names of a dataclass instance, in declaration order  *)
(*   keys   the keys of a dict, in insertion order (values themselves)     *)
(*   items  the elements of a list, the values of a dict or of a dataclass *)
(***************************************************************************)
Val(tag, atom, chars, names, keys, items) ==
    [tag |-> tag, atom |-> atom, chars |-> chars, names |-> names,
     keys |-> keys, items |-> items]

Str(chars) == Val("str", "", chars, <<>>, <<>>, <<>>)
IntV(text) == Val("int", text, <<>>, <<>>, <<>>, <<>>)
BoolV(text) == Val("bool", text, <<>>, <<>>, <<>>, <<>>)
NoneV == Val("none", "", <<>>, <<>>, <<>>, <<>>)
UNSET == Val("unset", "", <<>>, <<>>, <<>>, <<>>)
Undefined == Val("undefined", "", <<>>, <<>>, <<>>, <<>>)
ListV(items) == Val("list", "", <<>>, <<>>, <<>>, items)
MapV(keys, items) == Val("map", "", <<>>, <<>>, keys, items)
DataclassV(names, items) == Val("dataclass", "", <<>>, names, <<>>, items)

SeqMap(Op(_), s) == [i \in 1..Len(s) |-> Op(s[i])]

Max(a, b) == IF a >= b THEN a ELSE b

RECURSIVE SeqMax(_)
SeqMax(s) == IF s = <<>> THEN 0 ELSE Max(Head(s), SeqMax(Tail(s)))

\* a str of one character
Char(c) == Str(<<c>>)

\* the characters of the identifiers the model uses
Spell(name) ==
    CASE name = "reason" -> <<"r", "e", "a", "s", "o", "n">>
      [] name = "meta" -> <<"m", "e", "t", "a">>
      [] name = "key" -> <<"k", "e", "y">>
      [] name = "value" -> <<"v", "a", "l", "u", "e">>
      [] OTHER -> <<name>>

(***************************************************************************)
(* Results of a call: a returned value, or a raised exception.             *)
(***************************************************************************)
Ok(value, depth) == [status |-> "ok", value |-> value, depth |-> depth]

Raise(exc, depth) == [status |-> exc, value |-> NoneV, depth |-> depth]

(***************************************************************************)
(* _serialize_dataclass (printer.py 43-51)                                 *)
(***************************************************************************)
is_dataclass(value) == value.tag = "dataclass"

\* isinstance(value, collections.abc.Iterable): str, list and dict all are
IsIterable(value) == value.tag \in {"str", "list", "map"}

IsMapping(value) == value.tag = "map"

\* what `for v in value` yields: the characters of a str (each a str of
\* length one), the elements of a list, the keys of a dict
Iterate(value) ==
    CASE value.tag = "str" -> SeqMap(Char, value.chars)
      [] value.tag = "list" -> value.items
      [] value.tag = "map" -> value.keys
      [] OTHER -> <<>>

\* dataclasses.asdict: a dict of the fields, recursing into dataclasses,
\* lists and dicts (keys and values); anything else is copied
RECURSIVE asdict_inner(_)
asdict_inner(value) ==
    CASE value.tag = "dataclass" ->
           MapV([i \in 1..Len(value.names) |-> Str(Spell(value.names[i]))],
                [i \in 1..Len(value.items) |-> asdict_inner(value.items[i])])
      [] value.tag = "list" ->
           ListV([i \in 1..Len(value.items) |-> asdict_inner(value.items[i])])
      [] value.tag = "map" ->
           MapV([i \in 1..Len(value.keys) |-> asdict_inner(value.keys[i])],
                [i \in 1..Len(value.items) |-> asdict_inner(value.items[i])])
      [] OTHER -> value

asdict(value) == asdict_inner(value)

\* the deepest frame among the calls `rs` made from a frame at `depth`
Deepest(rs, depth) == Max(depth, SeqMax([i \in 1..Len(rs) |-> rs[i].depth]))

\* the list comprehension at 47 over the results of its recursive calls
list_of(rs, depth) ==
    IF \E i \in 1..Len(rs) : rs[i].status # "ok"
    THEN Raise("RecursionError", Deepest(rs, depth))
    ELSE Ok(ListV([i \in 1..Len(rs) |-> rs[i].value]), Deepest(rs, depth))

\* the dict comprehension at 49 over the results of its recursive calls
dict_of(keys, rs, depth) ==
    IF \E i \in 1..Len(rs) : rs[i].status # "ok"
    THEN Raise("RecursionError", Deepest(rs, depth))
    ELSE Ok(MapV(keys, [i \in 1..Len(rs) |-> rs[i].value]), Deepest(rs, depth))

\* the call at recursion depth `depth` (0 for the caller's own call); the
\* result carries the deepest frame reached
RECURSIVE serialize_at(_, _)
serialize_at(value, depth) ==
    IF depth > RecursionLimit THEN Raise("RecursionError", depth)
    ELSE IF is_dataclass(value) THEN Ok(asdict(value), depth)
    ELSE IF IsIterable(value) THEN
        list_of([i \in 1..Len(Iterate(value)) |->
                   serialize_at(Iterate(value)[i], depth + 1)], depth)
    ELSE IF IsMapping(value) THEN
        dict_of(value.keys,
                [i \in 1..Len(value.items) |-> serialize_at(value.items[i], depth + 1)],
                depth)
    ELSE Ok(value, depth)

_serialize_dataclass(value) == serialize_at(value, 0)


(***************************************************************************)
(* GraphQL input types of directive arguments, by their SDL signature.     *)
(* SensitiveValue is the input object type {key: String!, value: String!}  *)
(* of tests/test_printer/test_schema_directives.py.                        *)
(***************************************************************************)
ArgTypes == <<"String", "String!", "Int", "SensitiveValue!", "[SensitiveValue!]">>

is_non_null_type(type) == type \in {"String!", "SensitiveValue!"}

is_list_type(type) == type = "[SensitiveValue!]"

is_input_object_type(type) == type = "SensitiveValue"

is_leaf_type(type) == type \in {"String", "Int"}

of_type(type) ==
    CASE type = "String!" -> "String"
      [] type = "SensitiveValue!" -> "SensitiveValue"
      [] type = "[SensitiveValue!]" -> "SensitiveValue!"
      [] OTHER -> type

\* the fields of the input object type, in declaration order
input_fields(type) ==
    IF type = "SensitiveValue"
    THEN <<[name |-> "key", type |-> "String!"], [name |-> "value", type |-> "String!"]>>
    ELSE <<>>

(***************************************************************************)
(* AST value nodes (graphql.language.ast) and print_ast.  kind "None" is   *)
(* Python's None, returned when the value has no literal.                  *)
(***************************************************************************)
Node(kind, chars, names, items) ==
    [kind |-> kind, chars |-> chars, names |-> names, items |-> items]

NoNode == Node("None", <<>>, <<>>, <<>>)
NullValueNode == Node("NullValue", <<>>, <<>>, <<>>)
StringValueNode(chars) == Node("StringValue", chars, <<>>, <<>>)
IntValueNode(chars) == Node("IntValue", chars, <<>>, <<>>)
ListValueNode(items) == Node("ListValue", <<>>, <<>>, items)
ObjectValueNode(names, items) == Node("ObjectValue", <<>>, names, items)

\* ", ".join(parts), each part a token sequence
RECURSIVE Join(_, _)
Join(parts, sep) ==
    IF parts = <<>> THEN <<>>
    ELSE IF Len(parts) = 1 THEN parts[1]
    ELSE parts[1] \o <<sep>> \o Join(Tail(parts), sep)

RECURSIVE print_ast(_)
print_ast(ast) ==
    CASE ast.kind = "NullValue" -> <<"null">>
      [] ast.kind = "StringValue" -> <<"\"">> \o ast.chars \o <<"\"">>
      [] ast.kind = "IntValue" -> ast.chars
      [] ast.kind = "ListValue" ->
           <<"[">> \o Join([i \in 1..Len(ast.items) |-> print_ast(ast.items[i])], ", ")
                   \o <<"]">>
      [] ast.kind = "ObjectValue" ->
           <<"{">> \o Join([i \in 1..Len(ast.items) |->
                              <<ast.names[i], ": ">> \o print_ast(ast.items[i])], ", ")
                   \o <<"}">>
      [] OTHER -> <<>>

(***************************************************************************)
(* ast_from_value (graphql.utilities), called at printer.py 63.            *)
(***************************************************************************)
AstOk(node) == [status |-> "ok", node |-> node]

AstRaise(exc) == [status |-> exc, node |-> NoNode]

Digits == {"0", "1", "2", "3", "4", "5", "6", "7", "8", "9"}

IsIntegerText(chars) == chars # <<>> /\ \A i \in 1..Len(chars) : chars[i] \in Digits

\* GraphQLString.serialize and the literal made of it: a str is itself, a bool
\* and an int are their text, a custom object is its __str__ (the Unset
\* sentinel's __str__ is ""), a builtin container raises GraphQLError
string_literal(value) ==
    CASE value.tag = "str" -> AstOk(StringValueNode(value.chars))
      [] value.tag \in {"int", "bool"} -> AstOk(StringValueNode(<<value.atom>>))
      [] value.tag = "unset" -> AstOk(StringValueNode(<<>>))
      [] OTHER -> AstRaise("GraphQLError")

\* GraphQLInt.serialize and the literal made of it: an int is itself, a bool
\* is 1 or 0, a str of digits is its number, anything else raises GraphQLError
int_literal(value) ==
    CASE value.tag = "int" -> AstOk(IntValueNode(<<value.atom>>))
      [] value.tag = "bool" -> AstOk(IntValueNode(<<IF value.atom = "true" THEN "1" ELSE "0">>))
      [] value.tag = "str" /\ IsIntegerText(value.chars) -> AstOk(IntValueNode(value.chars))
      [] OTHER -> AstRaise("GraphQLError")

\* the first result that raised, if any
FirstRaise(rs) ==
    LET bad == {i \in 1..Len(rs) : rs[i].status # "ok"}
    IN  rs[CHOOSE i \in bad : \A j \in bad : i <= j].status

\* the index of key `name` in a dict, 0 when absent
KeyIndex(mapping, name) ==
    LET hits == {i \in 1..Len(mapping.keys) : mapping.keys[i] = Str(Spell(name))}
    IN  IF hits = {} THEN 0 ELSE CHOOSE i \in hits : TRUE

\* a non-null type: the literal of the wrapped type, unless it is null
non_null_node(r) ==
    IF r.status = "ok" /\ r.node.kind = "NullValue" THEN AstOk(NoNode) ELSE r

\* a list literal of the items that have a literal
list_node(rs) ==
    IF \E i \in 1..Len(rs) : rs[i].status # "ok" THEN AstRaise(FirstRaise(rs))
    ELSE AstOk(ListValueNode(SelectSeq([i \in 1..Len(rs) |-> rs[i].node],
                                       LAMBDA n : n.kind # "None")))

\* an object literal of the fields `present` in the dict that have a literal
object_node(present, rs) ==
    IF \E i \in 1..Len(rs) : rs[i].status # "ok" THEN AstRaise(FirstRaise(rs))
    ELSE AstOk(ObjectValueNode(
           SeqMap(LAMBDA f : f.name,
                  SelectSeq(present, LAMBDA f :
                      \E i \in 1..Len(rs) : present[i] = f /\ rs[i].node.kind # "None")),
           SelectSeq([i \in 1..Len(rs) |-> rs[i].node], LAMBDA n : n.kind # "None")))

\* the fields of an input object type that are keys of the dict
present_fields(value, type) ==
    SelectSeq(input_fields(type), LAMBDA f : KeyIndex(value, f.name) # 0)

RECURSIVE ast_from_value(_, _)
ast_from_value(value, type) ==
    IF is_non_null_type(type) THEN non_null_node(ast_from_value(value, of_type(type)))
    ELSE IF value.tag = "none" THEN AstOk(NullValueNode)
    ELSE IF value.tag = "undefined" THEN AstOk(NoNode)
    ELSE IF is_list_type(type) THEN
        IF value.tag = "list"
        THEN list_node([i \in 1..Len(value.items) |->
                          ast_from_value(value.items[i], of_type(type))])
        ELSE ast_from_value(value, of_type(type))
    ELSE IF is_input_object_type(type) THEN
        IF value.tag # "map" THEN AstOk(NoNode)
        ELSE object_node(present_fields(value, type),
                 [i \in 1..Len(present_fields(value, type)) |->
                    ast_from_value(
                        value.items[KeyIndex(value, present_fields(value, type)[i].name)],
                        present_fields(value, type)[i].type)])
    ELSE IF type = "String" THEN string_literal(value)
    ELSE IF type = "Int" THEN int_literal(value)
    ELSE AstRaise("TypeError")

(***************************************************************************)
(* print_schema_directive_params (printer.py 54-72)                        *)
(***************************************************************************)
\* a declared argument of a GraphQLDirective
GraphQLArgument(name, type, default_value) ==
    [tag |-> "GraphQLArgument", name |-> name, type |-> type,
     default_value |-> default_value]

GraphQLDirective(name, args) == [name |-> name, args |-> args]

\* strawberry.arguments.is_unset: the object is the Unset sentinel
is_unset(object) == object.tag = "unset"

\* values.get(name): the declared default is not passed
dict_get_without_default(values, name, default) ==
    IF KeyIndex(values, name) # 0 THEN values.items[KeyIndex(values, name)] ELSE NoneV

\* values.get(name, default)
dict_get(values, name, default) ==
    IF KeyIndex(values, name) # 0 THEN values.items[KeyIndex(values, name)] ELSE default

TextOk(text) == [status |-> "ok", text |-> text]

TextRaise(exc) == [status |-> exc, text |-> <<>>]

\* 64, 66-67: the entry appended for a literal, <<>> when there is none
entry_of(name, r) ==
    IF r.status # "ok" THEN TextRaise(r.status)
    ELSE IF r.node.kind = "None" THEN TextOk(<<>>)
    ELSE TextOk(<<name, ": ">> \o print_ast(r.node))

\* one pass of the loop body (58-67): the entry appended to params (<<>> when
\* none is), or the exception raised
param_entry(name, arg, values) ==
    IF is_unset(arg) THEN TextOk(<<>>)
    ELSE entry_of(name, ast_from_value(dict_get(values, name, arg.default_value),
                                       arg.type))

\* 69-72: the parameter string of the entries collected
params_text(rs) ==
    IF \E i \in 1..Len(rs) : rs[i].status # "ok" THEN TextRaise(FirstRaise(rs))
    ELSE IF \A i \in 1..Len(rs) : rs[i].text = <<>> THEN TextOk(<<>>)
    ELSE TextOk(<<"(">>
                \o Join(SelectSeq([i \in 1..Len(rs) |-> rs[i].text], LAMBDA e : e # <<>>),
                        ", ")
                \o <<")">>)

print_schema_directive_params(directive, values) ==
    params_text([i \in 1..Len(directive.args) |->
                   param_entry(directive.args[i].name, directive.args[i], values)])

(***************************************************************************)
(* Text results.  A printer returns text or raises; a concatenation        *)
(* a + b + c evaluates left to right and raises what its first failing     *)
(* operand raises.                                                         *)
(***************************************************************************)
\* "".join(texts)
RECURSIVE Flatten(_)
Flatten(texts) == IF texts = <<>> THEN <<>> ELSE Head(texts) \o Flatten(Tail(texts))

Concat(rs) ==
    IF \E i \in 1..Len(rs) : rs[i].status # "ok" THEN TextRaise(FirstRaise(rs))
    ELSE TextOk(Flatten([i \in 1..Len(rs) |-> rs[i].text]))

(***************************************************************************)
(* Schema directives.  A StrawberrySchemaDirective is a declared directive *)
(* (python name, optional name override, locations, declared arguments)    *)
(* with the dataclass instance holding the values of one application.      *)
(***************************************************************************)
StrawberrySchemaDirective(python_name, graphql_name, locations, arguments, instance) ==
    [python_name |-> python_name, graphql_name |-> graphql_name,
     locations |-> locations, arguments |-> arguments, instance |-> instance]

\* the default name of a directive: its python name, camel-cased
to_camel_case(python_name) ==
    CASE python_name = "Sensitive" -> "sensitive"
      [] python_name = "SensitiveData" -> "sensitiveData"
      [] python_name = "SensitiveInput" -> "sensitiveInput"
      [] python_name = "SensitiveField" -> "sensitiveField"
      [] python_name = "Mask" -> "mask"
      [] python_name = "Limit" -> "limit"
      [] OTHER -> python_name

\* GraphQLCoreConverter.from_schema_directive: the GraphQL directive of a
\* schema directive, named by the override when there is one
from_schema_directive(directive) ==
    GraphQLDirective(
        IF directive.graphql_name # "" THEN directive.graphql_name
        ELSE to_camel_case(directive.python_name),
        directive.arguments)

\* 91: the text of the application
directive_text(name, params) ==
    IF params.status # "ok" THEN params ELSE TextOk(<<" @", name>> \o params.text)

\* 86-89: the parameters of the serialized instance
directive_params(gql_directive, values) ==
    IF values.status # "ok" THEN TextRaise(values.status)
    ELSE directive_text(gql_directive.name,
                        print_schema_directive_params(gql_directive, values.value))

\* print_schema_directive (printer.py 75-91); either converter (80-83) gives
\* the same GraphQL directive
print_schema_directive(directive, schema) ==
    directive_params(from_schema_directive(directive),
                     _serialize_dataclass(directive.instance))

(***************************************************************************)
(* Strawberry's own definitions, looked up by name.                        *)
(***************************************************************************)
StrawberryField(python_name, directives) ==
    [tag |-> "StrawberryField", python_name |-> python_name, directives |-> directives]

NoField == [tag |-> "None", python_name |-> "", directives |-> <<>>]

TypeDefinition(name, extend, is_input, directives, fields) ==
    [tag |-> "TypeDefinition", name |-> name, extend |-> extend,
     is_input |-> is_input, directives |-> directives, fields |-> fields]

NoDefinition ==
    [tag |-> "None", name |-> "", extend |-> FALSE, is_input |-> FALSE,
     directives |-> <<>>, fields |-> <<>>]

\* schema.get_type_by_name(name): the definition of that name, or None
get_type_by_name(schema, name) ==
    LET hits == {i \in 1..Len(schema.definitions) : schema.definitions[i].name = name}
    IN  IF hits = {} THEN NoDefinition
        ELSE schema.definitions[CHOOSE i \in hits : \A j \in hits : i <= j]

\* TypeDefinition.get_field(python_name): the field of that name, or None
get_field(strawberry_type, python_name) ==
    LET hits == {i \in 1..Len(strawberry_type.fields) :
                   strawberry_type.fields[i].python_name = python_name}
    IN  IF hits = {} THEN NoField
        ELSE strawberry_type.fields[CHOOSE i \in hits : \A j \in hits : i <= j]

\* all(...) where the code has any(...)
all_locations(directive, allowed) ==
    \A i \in 1..Len(directive.locations) : directive.locations[i] \in allowed

\* any(location in allowed for location in directive.locations)
any_location(directive, allowed) ==
    \E i \in 1..Len(directive.locations) : directive.locations[i] \in allowed

(***************************************************************************)
(* print_field_directives (printer.py 94-109)                              *)
(***************************************************************************)
print_field_directives(field, schema) ==
    IF field.tag = "None" THEN TextOk(<<>>)
    ELSE LET directives ==
                 SelectSeq(field.directives,
                           LAMBDA d : any_location(d, {"FIELD_DEFINITION",
                                                       "INPUT_FIELD_DEFINITION"}))
         IN  Concat([i \in 1..Len(directives) |->
                       print_schema_directive(directives[i], schema)])

(***************************************************************************)
(* GraphQL core types of the schema's type_map, and graphql-core's         *)
(* printing helpers (graphql.utilities.print_schema).                      *)
(*   kind   "scalar" "enum" "object" "input" "interface" "union"           *)
(*   defined  is_defined_type: neither a specified scalar nor an           *)
(*            introspection type                                           *)
(*   description, deprecation_reason: "" stands for None                   *)
(*   python_name: the field's extensions["python_name"], "" when absent    *)
(***************************************************************************)
GraphQLField(name, type, python_name, args, description, deprecation_reason) ==
    [name |-> name, type |-> type, python_name |-> python_name, args |-> args,
     description |-> description, deprecation_reason |-> deprecation_reason]

GraphQLType(name, kind, defined, description, interfaces, fields, members) ==
    [name |-> name, kind |-> kind, defined |-> defined, description |-> description,
     interfaces |-> interfaces, fields |-> fields, members |-> members]

is_scalar_type(type_) == type_.kind = "scalar"

is_enum_type(type_) == type_.kind = "enum"

is_object_type(type_) == type_.kind = "object"

\* scalars, enums and input objects are the named input types
is_input_type(type_) == type_.kind \in {"scalar", "enum", "input"}

is_defined_type(type_) == type_.defined

print_description(def, indentation, first_in_block) ==
    IF def.description = "" THEN <<>>
    ELSE (IF indentation # "" /\ ~first_in_block THEN <<"\n", indentation>>
          ELSE IF indentation # "" THEN <<indentation>> ELSE <<>>)
         \o <<"\"\"\"", def.description, "\"\"\"", "\n">>

print_block(items) ==
    IF items = <<>> THEN <<>>
    ELSE <<" {\n">> \o Join(items, "\n") \o <<"\n}">>

DEFAULT_DEPRECATION_REASON == "No longer supported"

print_deprecated(reason) ==
    IF reason = "" THEN <<>>
    ELSE IF reason = DEFAULT_DEPRECATION_REASON THEN <<" @deprecated">>
    ELSE <<" @deprecated(reason: ", "\"", reason, "\"", ")">>

print_input_value(name, arg) == <<name, ": ", arg.type>> \o print_deprecated(arg.deprecation_reason)

print_args(args, indentation) ==
    IF args = <<>> THEN <<>>
    ELSE <<"(">> \o Join([i \in 1..Len(args) |-> <<args[i].name, ": ", args[i].type>>], ", ")
                 \o <<")">>

print_implemented_interfaces(type_) ==
    IF type_.interfaces = <<>> THEN <<>>
    ELSE <<" implements ">> \o Join([i \in 1..Len(type_.interfaces) |-> <<type_.interfaces[i]>>],
                                    " & ")

print_scalar(type_) == TextOk(print_description(type_, "", TRUE) \o <<"scalar ", type_.name>>)

print_enum(type_) ==
    TextOk(print_description(type_, "", TRUE) \o <<"enum ", type_.name>>
           \o print_block([i \in 1..Len(type_.members) |-> <<"  ", type_.members[i]>>]))

\* graphql-core's own field block: no schema directives
core_print_fields(type_) ==
    print_block([i \in 1..Len(type_.fields) |->
        print_description(type_.fields[i], "  ", i = 1)
        \o <<"  ", type_.fields[i].name>>
        \o print_args(type_.fields[i].args, "  ")
        \o <<": ", type_.fields[i].type>>
        \o print_deprecated(type_.fields[i].deprecation_reason)])

\* graphql-core's print_type, imported as original_print_type
original_print_type(type_) ==
    CASE type_.kind = "scalar" -> print_scalar(type_)
      [] type_.kind = "object" ->
           TextOk(print_description(type_, "", TRUE) \o <<"type ", type_.name>>
                  \o print_implemented_interfaces(type_) \o core_print_fields(type_))
      [] type_.kind = "interface" ->
           TextOk(print_description(type_, "", TRUE) \o <<"interface ", type_.name>>
                  \o print_implemented_interfaces(type_) \o core_print_fields(type_))
      [] type_.kind = "union" ->
           TextOk(print_description(type_, "", TRUE) \o <<"union ", type_.name>>
                  \o (IF type_.members = <<>> THEN <<>>
                      ELSE <<" = ">> \o Join([i \in 1..Len(type_.members) |->
                                                <<type_.members[i]>>], " | ")))
      [] type_.kind = "enum" -> print_enum(type_)
      [] type_.kind = "input" ->
           TextOk(print_description(type_, "", TRUE) \o <<"input ", type_.name>>
                  \o print_block([i \in 1..Len(type_.fields) |->
                       print_description(type_.fields[i], "  ", i = 1) \o <<"  ">>
                       \o print_input_value(type_.fields[i].name, type_.fields[i])]))
      [] OTHER -> TextRaise("TypeError")

\* whether the type object has a `fields` attribute
has_fields(type_) == type_.kind \in {"object", "input", "interface"}

(***************************************************************************)
(* print_fields (printer.py 112-137)                                       *)
(***************************************************************************)
\* the line of field i (128-135)
field_line(type_, i, strawberry_type, schema) ==
    LET field == type_.fields[i]
        python_name == field.python_name
        strawberry_field ==
            IF strawberry_type.tag # "None" /\ python_name # ""
            THEN get_field(strawberry_type, python_name)
            ELSE NoField
        args == print_args(field.args, "  ")
    IN  Concat(<<TextOk(print_description(field, "  ", i = 1)),
                 TextOk(<<"  ", field.name>>),
                 TextOk(args),
                 TextOk(<<": ", field.type>>),
                 print_field_directives(strawberry_field, schema),
                 TextOk(print_deprecated(field.deprecation_reason))>>)

\* 137: the block of the lines
fields_block(fields) ==
    IF \E i \in 1..Len(fields) : fields[i].status # "ok"
    THEN TextRaise(FirstRaise(fields))
    ELSE TextOk(print_block([i \in 1..Len(fields) |-> fields[i].text]))

print_fields(type_, schema) ==
    IF ~has_fields(type_) THEN TextRaise("AttributeError")
    ELSE fields_block([i \in 1..Len(type_.fields) |->
                         field_line(type_, i, get_type_by_name(schema, type_.name),
                                    schema)])

(***************************************************************************)
(* print_extends (printer.py 140-146)                                      *)
(***************************************************************************)
print_extends(type_, schema) ==
    LET strawberry_type == get_type_by_name(schema, type_.name)
    IN  IF strawberry_type.tag # "None" /\ strawberry_type.extend
        THEN TextOk(<<"extend ">>)
        ELSE TextOk(<<>>)

(***************************************************************************)
(* print_type_directives (printer.py 149-167)                              *)
(***************************************************************************)
print_type_directives(type_, schema) ==
    LET strawberry_type == get_type_by_name(schema, type_.name)
        allowed_locations ==
            IF strawberry_type.is_input THEN {"INPUT_OBJECT"} ELSE {"OBJECT"}
        directives ==
            SelectSeq(strawberry_type.directives,
                      LAMBDA d : any_location(d, allowed_locations))
    IN  IF strawberry_type.tag = "None" THEN TextOk(<<>>)
        ELSE Concat([i \in 1..Len(directives) |->
                       print_schema_directive(directives[i], schema)])

(***************************************************************************)
(* _print_object (printer.py 170-178)                                      *)
(***************************************************************************)
_print_object(type_, schema) ==
    Concat(<<TextOk(print_description(type_, "", TRUE)),
             print_extends(type_, schema),
             TextOk(<<"type ", type_.name>>),
             TextOk(print_implemented_interfaces(type_)),
             print_type_directives(type_, schema),
             print_fields(type_, schema)>>)

(***************************************************************************)
(* _print_input_object (printer.py 181-191)                                *)
(***************************************************************************)
_print_input_object(type_, schema) ==
    LET fields == [i \in 1..Len(type_.fields) |->
                     print_description(type_.fields[i], "  ", i = 1) \o <<"  ">>
                     \o print_input_value(type_.fields[i].name, type_.fields[i])]
    IN  IF ~has_fields(type_) THEN TextRaise("AttributeError")
        ELSE Concat(<<TextOk(print_description(type_, "", TRUE)),
                      TextOk(<<"input ", type_.name>>),
                      print_type_directives(type_, schema),
                      TextOk(print_block(fields))>>)

(***************************************************************************)
(* _print_type (printer.py 194-208)                                        *)
(***************************************************************************)
\* the input-type test made before the scalar and enum tests
_print_type_input_first(type_, schema) ==
    IF is_input_type(type_) THEN _print_input_object(type_, schema)
    ELSE IF is_scalar_type(type_) THEN print_scalar(type_)
    ELSE IF is_enum_type(type_) THEN print_enum(type_)
    ELSE IF is_object_type(type_) THEN _print_object(type_, schema)
    ELSE original_print_type(type_)

_print_type(type_, schema) ==
    IF is_scalar_type(type_) THEN print_scalar(type_)
    ELSE IF is_enum_type(type_) THEN print_enum(type_)
    ELSE IF is_object_type(type_) THEN _print_object(type_, schema)
    ELSE IF is_input_type(type_) THEN _print_input_object(type_, schema)
    ELSE original_print_type(type_)


(***************************************************************************)
(* print_schema (printer.py 211-227)                                       *)
(***************************************************************************)
GraphQLDirectiveDefinition(name, specified, locations) ==
    [name |-> name, specified |-> specified, locations |-> locations]

Schema(type_map, directives, query_type, mutation_type, definitions) ==
    [type_map |-> type_map, directives |-> directives, query_type |-> query_type,
     mutation_type |-> mutation_type, definitions |-> definitions]

is_specified_directive(directive) == directive.specified

\* the code points of the type names the model uses
Ord(name) ==
    CASE name = "Input" -> <<73, 110, 112, 117, 116>>
      [] name = "Int" -> <<73, 110, 116>>
      [] name = "Query" -> <<81, 117, 101, 114, 121>>
      [] name = "User" -> <<85, 115, 101, 114>>
      [] name = "UserInput" -> <<85, 115, 101, 114, 73, 110, 112, 117, 116>>
      [] name = "__Type" -> <<95, 95, 84, 121, 112, 101>>
      [] OTHER -> <<>>

\* Python's str order: by code point, a proper prefix first
RECURSIVE CodesLess(_, _)
CodesLess(a, b) ==
    IF b = <<>> THEN FALSE
    ELSE IF a = <<>> THEN TRUE
    ELSE IF Head(a) # Head(b) THEN Head(a) < Head(b)
    ELSE CodesLess(Tail(a), Tail(b))

StrLess(a, b) == CodesLess(Ord(a), Ord(b))

\* the names in the type_map's own order
unsorted(names) == names

\* sorted(names): a new list, ascending
RECURSIVE sorted(_)
sorted(names) ==
    IF names = <<>> THEN <<>>
    ELSE LET least == CHOOSE i \in 1..Len(names) :
                         \A j \in 1..Len(names) : ~StrLess(names[j], names[i])
         IN  <<names[least]>>
             \o sorted(SelectSeq(names, LAMBDA n : n # names[least]))

\* the keys of the type_map dict, in insertion order
type_map_keys(type_map) == [i \in 1..Len(type_map) |-> type_map[i].name]

\* type_map.get(name)
type_map_get(type_map, name) ==
    type_map[CHOOSE i \in 1..Len(type_map) : type_map[i].name = name]

\* print_schema_definition: None (here <<>>) for a schema of common names
print_schema_definition(schema) ==
    IF /\ schema.query_type \in {"", "Query"}
       /\ schema.mutation_type \in {"", "Mutation"}
    THEN <<>>
    ELSE <<"schema", " {\n">>
         \o Join((IF schema.query_type # "" THEN <<<<"  query: ", schema.query_type>>>>
                  ELSE <<>>)
                 \o (IF schema.mutation_type # ""
                     THEN <<<<"  mutation: ", schema.mutation_type>>>> ELSE <<>>), "\n")
         \o <<"\n}">>

print_directive(directive) ==
    <<"directive @", directive.name, " on ">>
    \o Join([i \in 1..Len(directive.locations) |-> <<directive.locations[i]>>], " | ")

\* 219: the defined types of the type_map, by ascending name
sorted_types(type_map) ==
    SelectSeq(SeqMap(LAMBDA name : type_map_get(type_map, name),
                     sorted(type_map_keys(type_map))),
              is_defined_type)

\* 223: the schema definition, when there is one
definition_blocks(definition) ==
    IF definition # <<>> THEN <<TextOk(definition)>> ELSE <<>>

\* the blocks chained at 222-226, in the order the join consumes them
print_schema_blocks(schema) ==
    definition_blocks(print_schema_definition(schema))
    \o SeqMap(LAMBDA directive : TextOk(print_directive(directive)),
              SelectSeq(schema.directives, LAMBDA n : ~is_specified_directive(n)))
    \o SeqMap(LAMBDA type_ : _print_type(type_, schema), sorted_types(schema.type_map))

\* 221: "\n\n".join of the blocks
join_blocks(blocks) ==
    IF \E i \in 1..Len(blocks) : blocks[i].status # "ok"
    THEN TextRaise(FirstRaise(blocks))
    ELSE TextOk(Join([i \in 1..Len(blocks) |-> blocks[i].text], "\n\n"))

print_schema(schema) == join_blocks(print_schema_blocks(schema))

(***************************************************************************)
(* Inputs.                                                                 *)
(***************************************************************************)
\* sequences over S of length 0..n
SeqsUpTo(S, n) == UNION {[1..k -> S] : k \in 0..n}

Strings == {Str([i \in 1..k |-> "a"]) : k \in 0..MaxLen}

Atoms == Strings \cup {IntV("1"), BoolV("true"), NoneV, UNSET}

MapKeys == {IntV("1"), Str(<<"a">>)}

Level1 ==
    {ListV(items) : items \in SeqsUpTo(Atoms, MaxLen)}
    \cup {MapV(<<>>, <<>>)}
    \cup {MapV(<<k>>, <<v>>) : k \in MapKeys, v \in Atoms}
    \cup {MapV(<<IntV("1"), IntV("2")>>, <<v, IntV("1")>>) : v \in Atoms}
    \cup {DataclassV(<<"key">>, <<v>>) : v \in Atoms}
    \cup {DataclassV(<<"key", "value">>, <<v, Str(<<"a">>)>>) : v \in Atoms}

Level2 ==
    {ListV(<<v>>) : v \in Level1}
    \cup {ListV(<<IntV("1"), v>>) : v \in Level1}
    \cup {MapV(<<IntV("1")>>, <<v>>) : v \in Level1}
    \cup {DataclassV(<<"meta">>, <<v>>) : v \in Level1}

SerializeInputs == Atoms \cup Level1 \cup Level2

ArgNames == {"reason", "meta"}

DefaultValues == {Undefined, UNSET, NoneV, Str(<<"d">>)}

DeclaredArguments ==
    {GraphQLArgument(n, ArgTypes[t], d) :
        n \in ArgNames, t \in 1..Len(ArgTypes), d \in DefaultValues}

\* the argument lists of a directive: one or two arguments of distinct names
ArgumentLists ==
    {<<a>> : a \in DeclaredArguments}
    \cup {<<a, b>> : a \in {x \in DeclaredArguments : x.name = "reason"},
                     b \in {x \in DeclaredArguments : x.name = "meta"}}
    \cup {<<b, a>> : a \in {x \in DeclaredArguments : x.name = "reason"},
                     b \in {x \in DeclaredArguments : x.name = "meta"}}

\* SensitiveValue(key="k", value="v") after asdict
SensitiveValueDict ==
    MapV(<<Str(Spell("key")), Str(Spell("value"))>>, <<Str(<<"k">>), Str(<<"v">>)>>)

SuppliedValues ==
    {Str(<<"a">>), UNSET, NoneV, IntV("1"), ListV(<<SensitiveValueDict>>)}

Key(name) == Str(Spell(name))

\* the supplied mappings: sparse, and in either key order
ValueMaps ==
    {MapV(<<>>, <<>>)}
    \cup {MapV(<<Key(n)>>, <<v>>) : n \in ArgNames, v \in SuppliedValues}
    \cup {MapV(<<Key("reason"), Key("meta")>>, <<v, w>>) :
            v \in SuppliedValues, w \in SuppliedValues}
    \cup {MapV(<<Key("meta"), Key("reason")>>, <<v, w>>) :
            v \in SuppliedValues, w \in SuppliedValues}

\* the values a dataclass instance holds, before asdict
SensitiveValueInstance ==
    DataclassV(<<"key", "value">>, <<Str(<<"k">>), Str(<<"v">>)>>)

InstanceValues ==
    {Str(<<"a">>), UNSET, NoneV, IntV("1"), ListV(<<SensitiveValueInstance>>)}

(***************************************************************************)
(* The schema directives attached in the schemas of the model.             *)
(***************************************************************************)
GDPR == Str(<<"G", "D", "P", "R">>)

ReasonArgument == GraphQLArgument("reason", "String!", Undefined)

MetaArgument == GraphQLArgument("meta", "[SensitiveValue!]", UNSET)

DirectivePalette ==
    <<StrawberrySchemaDirective("Sensitive", "", <<"FIELD_DEFINITION">>,
          <<ReasonArgument>>, DataclassV(<<"reason">>, <<GDPR>>)),
      StrawberrySchemaDirective("SensitiveData", "", <<"OBJECT", "FIELD_DEFINITION">>,
          <<ReasonArgument, MetaArgument>>,
          DataclassV(<<"reason", "meta">>, <<GDPR, ListV(<<SensitiveValueInstance>>)>>)),
      StrawberrySchemaDirective("SensitiveInput", "", <<"INPUT_OBJECT">>,
          <<ReasonArgument, MetaArgument>>,
          DataclassV(<<"reason", "meta">>, <<GDPR, UNSET>>)),
      StrawberrySchemaDirective("Mask", "masked", <<"INPUT_FIELD_DEFINITION">>,
          <<>>, DataclassV(<<>>, <<>>)),
      StrawberrySchemaDirective("Limit", "", <<"OBJECT", "INPUT_OBJECT", "FIELD_DEFINITION">>,
          <<GraphQLArgument("count", "Int", UNSET)>>,
          DataclassV(<<"count">>, <<UNSET>>))>>

\* the lists of applications attached to one type or field
DirectiveLists ==
    {[i \in 1..Len(ix) |-> DirectivePalette[ix[i]]] :
        ix \in SeqsUpTo(1..Len(DirectivePalette), MaxDirectives)}

(***************************************************************************)
(* Schemas.                                                                *)
(***************************************************************************)
Kinds == {"scalar", "enum", "object", "input", "interface", "union"}

FieldKinds == {"object", "input", "interface"}

PlainField(name, type, python_name) == GraphQLField(name, type, python_name, <<>>, "", "")

\* the members of an enum or a union, the fields of the other kinds
MembersOf(kind) ==
    CASE kind = "enum" -> <<"ADMIN", "GUEST">>
      [] kind = "union" -> <<"Query", "Input">>
      [] OTHER -> <<>>

\* one type named User: its kind, description, definition (absent, plain or
\* extended) and type-level directives vary
TypeSchema(kind, description, defined_as, directives) ==
    LET fields == IF kind \in FieldKinds
                  THEN <<PlainField("phone", "String!", "phone"),
                         PlainField("firstName", "String!", "first_name")>>
                  ELSE <<>>
    IN  Schema(<<GraphQLType("User", kind, TRUE, description,
                             IF kind = "object" THEN <<"Node">> ELSE <<>>,
                             fields, MembersOf(kind))>>,
               <<>>, "", "",
               IF defined_as = "absent" THEN <<>>
               ELSE <<TypeDefinition("User", defined_as = "extend", kind = "input",
                                     directives,
                                     <<StrawberryField("phone", <<DirectivePalette[1]>>),
                                       StrawberryField("first_name", <<>>)>>)>>)

\* one type named User with fields: the correlation of its second field with
\* a strawberry field, that field's directives and its deprecation vary
FieldSchema(kind, has_definition, has_python_name, deprecation_reason, directives) ==
    Schema(<<GraphQLType("User", kind, TRUE, "", <<>>,
                 <<GraphQLField("firstName", "String!", "first_name", <<>>, "", ""),
                   GraphQLField("phone", "String", IF has_python_name THEN "phone" ELSE "",
                                IF kind = "input" THEN <<>>
                                ELSE <<[name |-> "mask", type |-> "Boolean"]>>,
                                "the number", deprecation_reason)>>,
                 <<>>)>>,
           <<>>, "", "",
           IF has_definition
           THEN <<TypeDefinition("User", FALSE, kind = "input", <<>>,
                                 <<StrawberryField("first_name", <<>>),
                                   StrawberryField("phone", directives)>>)>>
           ELSE <<>>)

\* the types of the schemas whose type_map order varies
NamedType(name) ==
    CASE name = "Query" ->
           GraphQLType("Query", "object", TRUE, "", <<>>,
               <<GraphQLField("user", "User!", "user",
                              <<[name |-> "input", type |-> "Input!"]>>, "", "")>>, <<>>)
      [] name = "User" ->
           GraphQLType("User", "object", TRUE, "", <<>>,
               <<PlainField("phone", "String!", "phone"),
                 PlainField("firstName", "String!", "first_name"),
                 PlainField("age", "Int!", "age")>>, <<>>)
      [] name = "Input" ->
           GraphQLType("Input", "input", TRUE, "", <<>>,
               <<PlainField("name", "String!", "name"),
                 PlainField("id", "Int!", "id")>>, <<>>)
      [] name = "UserInput" ->
           GraphQLType("UserInput", "input", TRUE, "", <<>>,
               <<PlainField("firstName", "String!", "first_name")>>, <<>>)
      [] name = "Int" ->
           GraphQLType("Int", "scalar", FALSE, "", <<>>, <<>>, <<>>)
      [] OTHER ->
           GraphQLType("__Type", "object", FALSE, "", <<>>,
               <<PlainField("name", "String", "")>>, <<>>)

TypeNames == {"Query", "User", "Input", "UserInput", "Int", "__Type"}

NamedDefinitions ==
    <<TypeDefinition("Query", FALSE, FALSE, <<>>, <<StrawberryField("user", <<>>)>>),
      TypeDefinition("User", FALSE, FALSE, <<DirectivePalette[2]>>,
          <<StrawberryField("phone", <<DirectivePalette[2]>>),
            StrawberryField("first_name", <<>>),
            StrawberryField("age", <<DirectivePalette[1]>>)>>),
      TypeDefinition("Input", FALSE, TRUE, <<DirectivePalette[3]>>,
          <<StrawberryField("name", <<>>), StrawberryField("id", <<>>)>>),
      TypeDefinition("UserInput", FALSE, TRUE, <<>>,
          <<StrawberryField("first_name", <<>>)>>)>>

\* insertion orders of a type_map: sequences of distinct names
TypeMapOrders ==
    {names \in SeqsUpTo(TypeNames, MaxTypes) :
        \A i, j \in 1..Len(names) : i # j => names[i] # names[j]}

DirectiveDefinitionLists ==
    {<<GraphQLDirectiveDefinition("skip", TRUE, <<"FIELD">>),
       GraphQLDirectiveDefinition("deprecated", TRUE, <<"FIELD_DEFINITION">>)>>,
     <<GraphQLDirectiveDefinition("skip", TRUE, <<"FIELD">>),
       GraphQLDirectiveDefinition("uppercase", FALSE, <<"FIELD">>),
       GraphQLDirectiveDefinition("deprecated", TRUE, <<"FIELD_DEFINITION">>),
       GraphQLDirectiveDefinition("replace", FALSE, <<"FIELD", "QUERY">>)>>}

\* the root query type is one of the schema's object types, if any
QueryTypes(names) ==
    {""} \cup {names[i] : i \in {j \in 1..Len(names) : names[j] \in {"Query", "User"}}}

OrderSchema(names, directives, query_type) ==
    Schema([i \in 1..Len(names) |-> NamedType(names[i])], directives, query_type, "",
           SelectSeq(NamedDefinitions,
                     LAMBDA d : \E i \in 1..Len(names) : names[i] = d.name))

EmptySchema == Schema(<<>>, <<>>, "", "", <<>>)

NotYet == [status |-> "not yet", text |-> <<>>]

(***************************************************************************)
(* The state machine.  the_schema is the schema object; op, op_arg and     *)
(* op_res are the last call made, its argument and what it returned;       *)
(* first_res is what the first print_schema call returned.  The schema is  *)
(* print_schema's argument: op_arg then records whether the schema had     *)
(* been printed before that call.                                          *)
(***************************************************************************)
InitCalls ==
    /\ op = "init"
    /\ op_arg = NoneV
    /\ op_res = NotYet
    /\ first_res = NotYet

Init ==
    /\ InitCalls
    /\ \/ \E kind \in Kinds, description \in {"", "A user"},
             defined_as \in {"absent", "plain", "extend"}, directives \in DirectiveLists :
            /\ defined_as # "absent" => kind \in FieldKinds
            /\ defined_as = "absent" => directives = <<>>
            /\ the_schema = TypeSchema(kind, description, defined_as, directives)
       \/ \E kind \in FieldKinds, has_definition \in BOOLEAN, has_python_name \in BOOLEAN,
             deprecation_reason \in {"", DEFAULT_DEPRECATION_REASON, "old"},
             directives \in DirectiveLists :
            /\ ~has_definition => directives = <<>>
            /\ the_schema = FieldSchema(kind, has_definition, has_python_name,
                                        deprecation_reason, directives)
       \/ \E names \in TypeMapOrders, directives \in DirectiveDefinitionLists :
            \E query_type \in QueryTypes(names) :
                the_schema = OrderSchema(names, directives, query_type)

\* print_schema with the type_map sorted in place
PrintSchemaSortingInPlace ==
    /\ op' = "print_schema"
    /\ op_arg' = [repeated |-> first_res # NotYet]
    /\ op_res' = print_schema(the_schema)
    /\ first_res' = IF first_res = NotYet THEN op_res' ELSE first_res
    /\ the_schema' = [the_schema EXCEPT !.type_map =
                         SeqMap(LAMBDA name : type_map_get(the_schema.type_map, name),
                                sorted(type_map_keys(the_schema.type_map)))]

\* print_schema(schema)
PrintSchema ==
    /\ op' = "print_schema"
    /\ op_arg' = [repeated |-> first_res # NotYet]
    /\ op_res' = print_schema(the_schema)
    /\ first_res' = IF first_res = NotYet THEN op_res' ELSE first_res
    /\ UNCHANGED the_schema

\* _print_type(type_, schema) on a type of the schema
PrintType ==
    \E i \in 1..Len(the_schema.type_map) :
        /\ op' = "_print_type"
        /\ op_arg' = the_schema.type_map[i]
        /\ op_res' = _print_type(the_schema.type_map[i], the_schema)
        /\ UNCHANGED <<the_schema, first_res>>

\* print_type_directives(type_, schema) on an object or input object type
PrintTypeDirectives ==
    \E i \in 1..Len(the_schema.type_map) :
        /\ the_schema.type_map[i].kind \in {"object", "input"}
        /\ op' = "print_type_directives"
        /\ op_arg' = the_schema.type_map[i]
        /\ op_res' = print_type_directives(the_schema.type_map[i], the_schema)
        /\ UNCHANGED <<the_schema, first_res>>

\* print_field_directives(field, schema) on a strawberry field, or on None
PrintFieldDirectives ==
    \/ \E i \in 1..Len(the_schema.definitions) :
         \E j \in 1..Len(the_schema.definitions[i].fields) :
            /\ op' = "print_field_directives"
            /\ op_arg' = the_schema.definitions[i].fields[j]
            /\ op_res' = print_field_directives(the_schema.definitions[i].fields[j],
                                                the_schema)
            /\ UNCHANGED <<the_schema, first_res>>
    \/ /\ op' = "print_field_directives"
       /\ op_arg' = NoField
       /\ op_res' = print_field_directives(NoField, the_schema)
       /\ UNCHANGED <<the_schema, first_res>>

Next == PrintSchema \/ PrintType \/ PrintTypeDirectives \/ PrintFieldDirectives

Spec == Init /\ [][Next]_vars

(***************************************************************************)
(* _serialize_dataclass as a function of its argument: the argument is     *)
(* drawn by the initial state and the call is made once.                   *)
(***************************************************************************)
InitSerialize ==
    /\ the_schema = EmptySchema
    /\ op = "init"
    /\ op_arg \in SerializeInputs
    /\ op_res = NotYet
    /\ first_res = NotYet

SerializeDataclass ==
    /\ op = "init"
    /\ op' = "_serialize_dataclass"
    /\ op_res' = _serialize_dataclass(op_arg)
    /\ UNCHANGED <<the_schema, op_arg, first_res>>

NextSerialize == SerializeDataclass

SpecSerialize == InitSerialize /\ [][NextSerialize]_vars

(***************************************************************************)
(* The directive renderer as a function of its arguments: a directive and  *)
(* a mapping of supplied values for print_schema_directive_params, an      *)
(* application of a directive for print_schema_directive.                  *)
(***************************************************************************)
\* an application of a directive of those arguments: an instance holding a
\* value for every declared argument
Application(python_name, graphql_name, args, items) ==
    StrawberrySchemaDirective(python_name, graphql_name, <<"FIELD_DEFINITION">>, args,
        DataclassV([i \in 1..Len(args) |-> args[i].name], items))

InitDirective ==
    /\ the_schema = EmptySchema
    /\ op = "init"
    /\ op_res = NotYet
    /\ first_res = NotYet
    /\ \/ \E args \in ArgumentLists, values \in ValueMaps :
            op_arg = [call |-> "print_schema_directive_params",
                      directive |-> GraphQLDirective("sensitive", args),
                      values |-> values, application |-> NoneV]
       \/ \E args \in ArgumentLists, graphql_name \in {"", "renamed"} :
            \E items \in [1..Len(args) -> InstanceValues] :
                op_arg = [call |-> "print_schema_directive",
                          directive |-> GraphQLDirective("", <<>>),
                          values |-> NoneV,
                          application |-> Application("SensitiveField", graphql_name,
                                                      args, items)]

PrintSchemaDirectiveParams ==
    /\ op = "init"
    /\ op_arg.call = "print_schema_directive_params"
    /\ op' = "print_schema_directive_params"
    /\ op_res' = print_schema_directive_params(op_arg.directive, op_arg.values)
    /\ UNCHANGED <<the_schema, op_arg, first_res>>

PrintSchemaDirective ==
    /\ op = "init"
    /\ op_arg.call = "print_schema_directive"
    /\ op' = "print_schema_directive"
    /\ op_res' = print_schema_directive(op_arg.application, the_schema)
    /\ UNCHANGED <<the_schema, op_arg, first_res>>

NextDirective == PrintSchemaDirectiveParams \/ PrintSchemaDirective

SpecDirective == InitDirective /\ [][NextDirective]_vars


(***************************************************************************)
(* Helpers of the properties.                                              *)
(***************************************************************************)
\* `part` occurs in `text` as a run of adjacent tokens
ContainsSeq(text, part) ==
    \E k \in 0..(Len(text) - Len(part)) : SubSeq(text, k + 1, k + Len(part)) = part

\* the parameter string has an entry `name: literal`
HasEntry(text, name) ==
    \E k \in 1..(Len(text) - 1) : text[k] = name /\ text[k + 1] = ": "

\* the value bound to declared argument i: the supplied one, or the default
SelectedValue(args, values, i) ==
    IF \E k \in 1..Len(values.keys) : values.keys[k] = Key(args[i].name)
    THEN values.items[CHOOSE k \in 1..Len(values.keys) : values.keys[k] = Key(args[i].name)]
    ELSE args[i].default_value

\* the literal of declared argument i
LiteralOf(args, values, i) == ast_from_value(SelectedValue(args, values, i), args[i].type)

\* the entries of arguments i.., each after a separator when one precedes it
RECURSIVE ExpectedEntries(_, _, _, _)
ExpectedEntries(args, values, i, any_before) ==
    IF i > Len(args) THEN <<>>
    ELSE IF LiteralOf(args, values, i).node.kind = "None"
    THEN ExpectedEntries(args, values, i + 1, any_before)
    ELSE (IF any_before THEN <<", ">> ELSE <<>>)
         \o <<args[i].name, ": ">> \o print_ast(LiteralOf(args, values, i).node)
         \o ExpectedEntries(args, values, i + 1, TRUE)

ExpectedParams(args, values) ==
    IF ExpectedEntries(args, values, 1, FALSE) = <<>> THEN <<>>
    ELSE <<"(">> \o ExpectedEntries(args, values, 1, FALSE) \o <<")">>

\* the fragments of the applications of `directives` that declare a location
\* of `allowed`, in attachment order
RECURSIVE ExpectedFragments(_, _)
ExpectedFragments(directives, allowed) ==
    IF directives = <<>> THEN <<>>
    ELSE (IF {Head(directives).locations[i] : i \in 1..Len(Head(directives).locations)}
               \cap allowed # {}
          THEN print_schema_directive(Head(directives), the_schema).text
          ELSE <<>>)
         \o ExpectedFragments(Tail(directives), allowed)

FieldLocations == {"FIELD_DEFINITION", "INPUT_FIELD_DEFINITION"}

\* the type-level context of a type, by its kind
TypeLocations(type_) == IF type_.kind = "input" THEN {"INPUT_OBJECT"} ELSE {"OBJECT"}

\* the definition correlated with a type, and the strawberry field correlated
\* with its field i (NoDefinition, NoField when there is none)
DefinitionOf(type_) == get_type_by_name(the_schema, type_.name)

CorrelatedField(type_, i) ==
    IF DefinitionOf(type_).tag = "None" \/ type_.fields[i].python_name = "" THEN NoField
    ELSE IF \E k \in 1..Len(DefinitionOf(type_).fields) :
              DefinitionOf(type_).fields[k].python_name = type_.fields[i].python_name
    THEN DefinitionOf(type_).fields[
             CHOOSE k \in 1..Len(DefinitionOf(type_).fields) :
                 DefinitionOf(type_).fields[k].python_name = type_.fields[i].python_name]
    ELSE NoField

\* a printed block without its description
AfterDescription(text) ==
    IF text # <<>> /\ text[1] = "\"\"\"" THEN SubSeq(text, 5, Len(text)) ELSE text

\* the blocks of a printed schema
RECURSIVE SplitBlocks(_)
SplitBlocks(text) ==
    IF text = <<>> THEN <<>>
    ELSE IF \E k \in 1..Len(text) : text[k] = "\n\n"
    THEN LET cut == CHOOSE k \in 1..Len(text) :
                       text[k] = "\n\n" /\ \A j \in 1..(k - 1) : text[j] # "\n\n"
         IN  <<SubSeq(text, 1, cut - 1)>> \o SplitBlocks(SubSeq(text, cut + 1, Len(text)))
    ELSE <<text>>

\* 0 for the schema definition block, 1 for a directive definition, 2 for a type
BlockRank(block) ==
    CASE AfterDescription(block)[1] = "schema" -> 0
      [] AfterDescription(block)[1] = "directive @" -> 1
      [] OTHER -> 2

\* the name a directive or type block declares
BlockName(block) ==
    IF AfterDescription(block)[1] = "extend " THEN AfterDescription(block)[3]
    ELSE AfterDescription(block)[2]

\* the names at the start of the lines of a block's braces
LineNames(block) ==
    LET starts == SelectSeq([k \in 1..Len(block) |-> k],
                            LAMBDA k : /\ k < Len(block)
                                       /\ block[k] = "  "
                                       /\ block[k + 1] # "\"\"\"")
    IN  [n \in 1..Len(starts) |-> block[starts[n] + 1]]

Range(seq) == {seq[i] : i \in 1..Len(seq)}

\* nesting depth of a value: 0 for a scalar, one more than its deepest
\* element for a list, a dict or a dataclass instance
RECURSIVE NestingDepth(_)
NestingDepth(value) ==
    IF value.tag \in {"list", "map", "dataclass"}
    THEN 1 + SeqMax([i \in 1..Len(value.items) |-> NestingDepth(value.items[i])])
    ELSE 0

IsScalar(value) == value.tag \in {"str", "int", "bool"}

\* the shape-preserving serialization of a value
RECURSIVE Serialized(_)
Serialized(value) ==
    CASE value.tag = "dataclass" ->
           MapV([i \in 1..Len(value.names) |-> Key(value.names[i])],
                [i \in 1..Len(value.items) |-> Serialized(value.items[i])])
      [] value.tag = "list" ->
           ListV([i \in 1..Len(value.items) |-> Serialized(value.items[i])])
      [] value.tag = "map" ->
           MapV(value.keys, [i \in 1..Len(value.items) |-> Serialized(value.items[i])])
      [] OTHER -> value

(***************************************************************************)
(* The properties.                                                         *)
(***************************************************************************)

\* C1: in print_schema_directive_params, an argument whose selected value
\* (supplied, or the default when the key is absent) is the Unset sentinel
\* has no `name: literal` entry in the returned string, whatever its type
\* and default, and the call returns normally (no other argument's value
\* being one that cannot be encoded).
C1_UnsetArgumentOmitted ==
    op = "print_schema_directive_params" =>
        \A i \in 1..Len(op_arg.directive.args) :
            is_unset(SelectedValue(op_arg.directive.args, op_arg.values, i)) =>
                /\ op_res.status = "ok" => ~HasEntry(op_res.text, op_arg.directive.args[i].name)
                /\ (\A j \in 1..Len(op_arg.directive.args) :
                       is_unset(SelectedValue(op_arg.directive.args, op_arg.values, j))
                       \/ LiteralOf(op_arg.directive.args, op_arg.values, j).status = "ok")
                   => op_res.status = "ok"

\* a String argument supplied as Unset, printed as an entry
C1_UnsetPrinted ==
    /\ op = "print_schema_directive_params"
    /\ Len(op_arg.directive.args) = 1
    /\ op_arg.directive.args[1] = GraphQLArgument("reason", "String", Undefined)
    /\ op_arg.values = MapV(<<Key("reason")>>, <<UNSET>>)
    /\ op_res.status = "ok"
    /\ HasEntry(op_res.text, "reason")

\* C2: the text of a directive application is " @" + name + params; params
\* is empty when no declared argument has a literal, else the parenthesised
\* `name: literal` entries joined by ", ", in declaration order, at most one
\* per argument, an absent key rendered from the declared default, and no
\* entry for a value without a literal.
C2_DirectiveText ==
    /\ (op = "print_schema_directive_params" /\ op_res.status = "ok") =>
           op_res.text = ExpectedParams(op_arg.directive.args, op_arg.values)
    /\ (op = "print_schema_directive" /\ op_res.status = "ok") =>
           op_res.text =
               <<" @", IF op_arg.application.graphql_name # ""
                       THEN op_arg.application.graphql_name
                       ELSE to_camel_case(op_arg.application.python_name)>>
               \o ExpectedParams(op_arg.application.arguments,
                                 Serialized(op_arg.application.instance))

\* a call with two declared arguments, the first absent from the supplied
\* mapping and rendered from its default, the second supplied
C2_Witness ==
    /\ op = "print_schema_directive_params"
    /\ op_res.status = "ok"
    /\ Len(op_arg.directive.args) = 2
    /\ op_arg.directive.args[1].name = "reason"
    /\ op_arg.values.keys = <<Key("meta")>>
    /\ op_arg.directive.args[1].default_value = Str(<<"d">>)
    /\ HasEntry(op_res.text, "reason")
    /\ HasEntry(op_res.text, "meta")

\* C3: the directive fragments printed for a field or a type are those of
\* the attached applications that declare a location of the context
\* ({FIELD_DEFINITION, INPUT_FIELD_DEFINITION} for a field, {OBJECT} for an
\* object type, {INPUT_OBJECT} for an input object type), one fragment each,
\* in attachment order, with no separator; they follow the type's name and
\* interfaces in its printed block.
C3_DirectivesByLocation ==
    /\ (op = "print_field_directives" /\ op_res.status = "ok") =>
           op_res.text = ExpectedFragments(op_arg.directives, FieldLocations)
    /\ (op = "print_type_directives" /\ op_res.status = "ok") =>
           op_res.text = ExpectedFragments(DefinitionOf(op_arg).directives,
                                           TypeLocations(op_arg))
    /\ (op = "_print_type" /\ op_res.status = "ok" /\ op_arg.kind \in {"object", "input"}) =>
           ContainsSeq(op_res.text,
               <<IF op_arg.kind = "input" THEN "input " ELSE "type ", op_arg.name>>
               \o print_implemented_interfaces(op_arg)
               \o ExpectedFragments(DefinitionOf(op_arg).directives, TypeLocations(op_arg))
               \o <<" {\n">>)

\* two applications attached to a type, one printed and one left out
C3_Witness ==
    /\ op = "print_type_directives"
    /\ op_res.status = "ok"
    /\ op_res.text # <<>>
    /\ Len(DefinitionOf(op_arg).directives) = 2
    /\ \E i \in 1..2 :
           Range(DefinitionOf(op_arg).directives[i].locations) \cap TypeLocations(op_arg) = {}
    /\ \E i \in 1..2 : Len(DefinitionOf(op_arg).directives[i].locations) > 1

\* C4: the printed block of an object type or an input object type begins,
\* after its description, with "extend " exactly when the type's extend
\* flag is set.
C4_ExtendPrefix ==
    (op = "_print_type" /\ op_res.status = "ok" /\ op_arg.kind \in {"object", "input"}) =>
        ((AfterDescription(op_res.text)[1] = "extend ")
            <=> (DefinitionOf(op_arg).tag # "None" /\ DefinitionOf(op_arg).extend))

\* an extended input object type printed without the prefix
C4_InputNotExtended ==
    /\ op = "_print_type"
    /\ op_arg.kind = "input"
    /\ DefinitionOf(op_arg).tag # "None"
    /\ DefinitionOf(op_arg).extend
    /\ op_res.status = "ok"
    /\ AfterDescription(op_res.text)[1] = "input "

\* C5: in the output of print_schema the schema definition block precedes
\* the directive definitions, which precede the type blocks; the type
\* blocks are those of the defined types, in ascending order of name,
\* whatever the insertion order of the type_map; specified directives have
\* no block; the fields of a type are printed in their declared order.
C5_BlockOrder ==
    (op = "print_schema" /\ op_res.status = "ok") =>
        LET blocks == SplitBlocks(op_res.text)
            types == SelectSeq(blocks, LAMBDA b : BlockRank(b) = 2)
            directives == SelectSeq(blocks, LAMBDA b : BlockRank(b) = 1)
        IN  /\ \A i, j \in 1..Len(blocks) : i < j => BlockRank(blocks[i]) <= BlockRank(blocks[j])
            /\ Cardinality({i \in 1..Len(blocks) : BlockRank(blocks[i]) = 0}) <= 1
            /\ \A i, j \in 1..Len(types) :
                   i < j => StrLess(BlockName(types[i]), BlockName(types[j]))
            /\ {BlockName(types[i]) : i \in 1..Len(types)}
                 = {the_schema.type_map[i].name :
                      i \in {k \in 1..Len(the_schema.type_map) : the_schema.type_map[k].defined}}
            /\ [i \in 1..Len(directives) |-> BlockName(directives[i])]
                 = SeqMap(LAMBDA d : d.name,
                          SelectSeq(the_schema.directives, LAMBDA d : ~d.specified))
            /\ \A i \in 1..Len(types) :
                 \A k \in 1..Len(the_schema.type_map) :
                    (/\ the_schema.type_map[k].name = BlockName(types[i])
                     /\ the_schema.type_map[k].kind \in FieldKinds)
                    => LineNames(types[i])
                         = SeqMap(LAMBDA f : f.name, the_schema.type_map[k].fields)

\* a schema with a schema definition block, a directive definition, a
\* built-in type and three types inserted out of order, one of them with
\* fields declared out of alphabetical order
C5_Witness ==
    /\ op = "print_schema"
    /\ op_res.status = "ok"
    /\ op_res.text # <<>>
    /\ op_res.text[1] = "schema"
    /\ \E i \in 1..Len(the_schema.directives) : ~the_schema.directives[i].specified
    /\ \E i \in 1..Len(the_schema.directives) : the_schema.directives[i].specified
    /\ Len(the_schema.type_map) >= 3
    /\ \E i \in 1..Len(the_schema.type_map) : ~the_schema.type_map[i].defined
    /\ StrLess(the_schema.type_map[2].name, the_schema.type_map[1].name)
    /\ \E i \in 1..Len(the_schema.type_map) :
          /\ the_schema.type_map[i].defined
          /\ Len(the_schema.type_map[i].fields) >= 2
          /\ the_schema.type_map[i].fields[1].name = "phone"
          /\ the_schema.type_map[i].fields[2].name = "firstName"

RECURSIVE NoBareString(_)
NoBareString(value) ==
    CASE value.tag = "str" -> FALSE
      [] value.tag = "list" -> \A i \in 1..Len(value.items) : NoBareString(value.items[i])
      [] value.tag = "map" ->
           /\ \A i \in 1..Len(value.keys) : NoBareString(value.keys[i])
           /\ \A i \in 1..Len(value.items) : NoBareString(value.items[i])
      [] OTHER -> TRUE

\* C7: _serialize_dataclass preserves the shape of its input at every
\* level: a dataclass instance becomes a mapping of its fields in
\* declaration order, a sequence a sequence of the serialized elements in
\* the same order, a mapping a mapping of the same keys in the same order
\* with serialized values, never a sequence of its keys.  Stated on the
\* inputs that hold no string outside a dataclass instance.
C7_ShapePreserved ==
    (op = "_serialize_dataclass" /\ NoBareString(op_arg)) =>
        /\ op_res.status = "ok"
        /\ op_res.value = Serialized(op_arg)

\* the dict {1: 1} serialized as the list [1]
C7_DictAsKeyList ==
    /\ op = "_serialize_dataclass"
    /\ op_arg = MapV(<<IntV("1")>>, <<IntV("1")>>)
    /\ op_res = Ok(ListV(<<IntV("1")>>), 1)

\* C8: _serialize_dataclass returns on every finite value, recursing no
\* deeper than the value is nested; a scalar is returned unchanged by the
\* first call, with no recursion.
C8_Terminates ==
    op = "_serialize_dataclass" =>
        /\ op_res.status = "ok"
        /\ op_res.depth <= NestingDepth(op_arg)
        /\ IsScalar(op_arg) => (op_res.value = op_arg /\ op_res.depth = 0)

\* the string "a" recursed into until the interpreter's limit
C8_StringRecursion ==
    /\ op = "_serialize_dataclass"
    /\ op_arg = Str(<<"a">>)
    /\ op_res.status = "RecursionError"
    /\ op_res.depth > RecursionLimit

\* C9: every field line of a printed object type block and of a printed
\* input object type block carries, between the field's type and its
\* deprecation clause, the fragments of the applications attached to the
\* correlated field that declare FIELD_DEFINITION or INPUT_FIELD_DEFINITION;
\* a field with no correlated field carries none.
C9_FieldLineDirectives ==
    (op = "_print_type" /\ op_res.status = "ok" /\ op_arg.kind \in {"object", "input"}) =>
        \A i \in 1..Len(op_arg.fields) :
            \E end \in {"\n", "\n}"} :
                ContainsSeq(op_res.text,
                    <<"  ", op_arg.fields[i].name>>
                    \o print_args(op_arg.fields[i].args, "  ")
                    \o <<": ", op_arg.fields[i].type>>
                    \o ExpectedFragments(CorrelatedField(op_arg, i).directives, FieldLocations)
                    \o print_deprecated(op_arg.fields[i].deprecation_reason)
                    \o <<end>>)

\* an input object type whose field carries an INPUT_FIELD_DEFINITION
\* directive, printed with no fragment
C9_InputFieldBare ==
    /\ op = "_print_type"
    /\ op_arg.kind = "input"
    /\ op_res.status = "ok"
    /\ \E i \in 1..Len(op_arg.fields) :
          /\ CorrelatedField(op_arg, i).directives = <<DirectivePalette[4]>>
          /\ print_field_directives(CorrelatedField(op_arg, i), the_schema).text
                = <<" @", "masked">>
    /\ ~ContainsSeq(op_res.text, <<" @">>)

\* C10: _print_type prints a scalar with the scalar printer, an enum with
\* the enum printer, an object with the object printer, an input object
\* with the input object printer and an interface or a union with the
\* generic printer; the block starts with the keyword of the type's kind.
C10_Dispatch ==
    op = "_print_type" =>
        /\ op_res =
             CASE op_arg.kind = "scalar" -> print_scalar(op_arg)
               [] op_arg.kind = "enum" -> print_enum(op_arg)
               [] op_arg.kind = "object" -> _print_object(op_arg, the_schema)
               [] op_arg.kind = "input" -> _print_input_object(op_arg, the_schema)
               [] OTHER -> original_print_type(op_arg)
        /\ op_res.status = "ok" =>
             \E k \in 1..2 :
                AfterDescription(op_res.text)[k] =
                    CASE op_arg.kind = "scalar" -> "scalar "
                      [] op_arg.kind = "enum" -> "enum "
                      [] op_arg.kind = "object" -> "type "
                      [] op_arg.kind = "input" -> "input "
                      [] op_arg.kind = "interface" -> "interface "
                      [] OTHER -> "union "
        /\ op_arg.kind \in {"scalar", "enum", "interface", "union"} => op_res.status = "ok"

\* a scalar, which also satisfies the input-type test, printed as a scalar
C10_Witness ==
    /\ op = "_print_type"
    /\ op_arg.kind = "scalar"
    /\ is_input_type(op_arg)
    /\ op_res.status = "ok"
    /\ AfterDescription(op_res.text)[1] = "scalar "

=============================================================================
